---- MODULE Spec2Model ----
(***************************************************************************)
(* Model of the topic-partitioned paper metadata store of PlaygroundMCP    *)
(* (src/common_mcp_tools.py) and of the boundary operations of the three   *)
(* servers.  The file system under PAPER_DIR is the shared state; every    *)
(* search_papers call is a process that walks through the statements of    *)
(* the function, every read-only operation is one atomic step.             *)
(*                                                                         *)
(* Names (topics, slugs, directory names) are sequences of character       *)
(* codes, so that str.lower, str.replace and sorted() can be computed.     *)
(***************************************************************************)
EXTENDS Integers, Sequences, FiniteSets, TLC

(* ---------------------------------------------------------------- bounds *)

\* Largest max_results a caller passes (the code enforces no upper bound).
MaxResults == 2

\* Number of request slots (server processes sharing one PAPER_DIR).
NumProcs == 2

Procs == 1..NumProcs

(* ------------------------------------------------------- names and paths *)

\* "B", "a c": topics whose slug is one directory name.
PlainTopics == { <<66>>, <<97, 32, 99>> }

\* "", "b/c": the empty topic and a topic with a path separator.
OddTopics == { <<>>, <<98, 47, 99>> }

\* Every topic a caller can ask about.
Topics == PlainTopics \cup OddTopics

\* The topic all callers use when several of them run at the same time.
SharedTopics == { <<97, 32, 99>> }

\* "papers_info.json"
InfoFile == <<112, 97, 112, 101, 114, 115, 95, 105, 110, 102, 111, 46, 106, 115, 111, 110>>

\* str.lower() on one character
LowerChar(c) == IF c >= 65 /\ c <= 90 THEN c + 32 ELSE c

\* topic.lower().replace(" ", "_")
TopicSlug(topic) ==
    [i \in 1..Len(topic) |->
        IF LowerChar(topic[i]) = 32 THEN 95 ELSE LowerChar(topic[i])]

RECURSIVE SplitFrom(_, _, _)
\* The components of a relative path: s[i..] split at "/", cur being the
\* component read so far; empty components vanish as in os.path.
SplitFrom(s, i, cur) ==
    IF i > Len(s)
    THEN IF cur = <<>> THEN <<>> ELSE <<cur>>
    ELSE IF s[i] = 47
         THEN (IF cur = <<>> THEN <<>> ELSE <<cur>>) \o SplitFrom(s, i + 1, <<>>)
         ELSE SplitFrom(s, i + 1, Append(cur, s[i]))

\* os.path.join(PAPER_DIR, topic_slug), as the sequence of directory names
\* below PAPER_DIR; <<>> is PAPER_DIR itself.
TopicPath(slug) == SplitFrom(slug, 1, <<>>)

Root == <<>>

Prefixes(path) == { SubSeq(path, 1, n) : n \in 0..Len(path) }

\* Every directory a call can create.
AllDirs == UNION { Prefixes(TopicPath(TopicSlug(t))) : t \in Topics }

(* ------------------------------------------------------ papers and JSON *)

NoPublished == [date |-> "None", time |-> "None"]

\* What the search collaborator can return: arxiv.Result objects.
Papers ==
    { [id |-> "A", title |-> "tA", authors |-> <<"x">>, summary |-> "sA",
       pdf_url |-> "uA", published |-> [date |-> "2023-03-15", time |-> "17:30"]],
      [id |-> "B", title |-> "tB", authors |-> <<"x", "y">>, summary |-> "sB",
       pdf_url |-> "uB", published |-> NoPublished],
      [id |-> "B", title |-> "tB2", authors |-> <<"y">>, summary |-> "sB2",
       pdf_url |-> "uB", published |-> [date |-> "2024-01-02", time |-> "09:00"]],
      [id |-> "C", title |-> "tC", authors |-> <<>>, summary |-> "sC",
       pdf_url |-> "", published |-> [date |-> "2024-01-02", time |-> "23:59"]] }

PaperIds == { p.id : p \in Papers }

RECURSIVE SeqsUpTo(_, _)
SeqsUpTo(S, n) ==
    IF n = 0 THEN { <<>> }
    ELSE LET shorter == SeqsUpTo(S, n - 1)
         IN  shorter \cup { Append(s, x) : s \in { q \in shorter : Len(q) = n - 1 }, x \in S }

\* The Paper Record built for one result.
PaperInfoEntry(paper) ==
    [title     |-> paper.title,
     authors   |-> paper.authors,
     summary   |-> paper.summary,
     pdf_url   |-> paper.pdf_url,
     published |-> IF paper.published = NoPublished THEN "N/A"
                   ELSE paper.published.date]

EmptyMap == [i \in {} |-> PaperInfoEntry(CHOOSE p \in Papers : TRUE)]

\* Python values json.load can give back.
PyDict(m) == [t |-> "dict", members |-> m]
PyNone    == [t |-> "none", members |-> EmptyMap]

\* File texts.  A text is a JSON object, the JSON literal null, the empty
\* text left by open(..., "w"), or the flushed prefix of a serialization.
NoFile       == [t |-> "absent", members |-> EmptyMap]
EmptyText    == [t |-> "empty", members |-> EmptyMap]
PartialText  == [t |-> "partial", members |-> EmptyMap]
ObjectText(m) == [t |-> "object", members |-> m]
NullText     == [t |-> "null", members |-> EmptyMap]

\* A dump that writes nothing for an empty dict.
JsonDumpSkipEmpty(value) ==
    IF value.t # "dict" THEN NullText
    ELSE IF DOMAIN value.members = {} THEN EmptyText ELSE ObjectText(value.members)

\* json.dump(value, file, indent=2): the complete text.
JsonDump(value) ==
    IF value.t = "dict" THEN ObjectText(value.members) ELSE NullText

\* json.load(file): a value, or JSONDecodeError.
JsonLoad(text) ==
    CASE text.t = "object" -> [ok |-> TRUE, value |-> PyDict(text.members)]
      [] text.t = "null"   -> [ok |-> TRUE, value |-> PyNone]
      [] OTHER             -> [ok |-> FALSE, value |-> PyNone]

\* An item assignment that keeps the entry an id already has.
SetItemKeepOld(m, k, v) == [x \in DOMAIN m \cup {k} |-> IF x \in DOMAIN m THEN m[x] ELSE v]

\* papers_info[paper_id] = paper_info_entry
SetItem(m, k, v) == [x \in DOMAIN m \cup {k} |-> IF x = k THEN v ELSE m[x]]

(* ----------------------------------------------------------------- state *)

VARIABLES
    dirs,     \* the directories that exist, as paths below PAPER_DIR (Root: PAPER_DIR itself)
    files,    \* files[d]: the text of papers_info.json in directory d, or NoFile
    procs,    \* procs[p]: the search_papers call running in slot p, with its locals
    ret,      \* the response of the read-only operation served last
    prev,     \* the search_papers call that returned last, nothing else having run since
    workers,  \* how many requests the host lets run at the same time
    asked     \* the topics the callers of this configuration ask about

vars == <<dirs, files, procs, ret, prev, workers, asked>>

NoFiles == [d \in AllDirs |-> NoFile]

Idle ==
    [pc |-> "idle", topic |-> <<>>, max_results |-> 0, papers_info |-> PyNone,
     fetched |-> <<>>, result |-> <<>>, exc |-> "", before |-> NoFiles]

NoRet == [op |-> "none", arg |-> <<>>, result |-> [kind |-> "none"]]

NoPrev == [topic |-> <<>>, max_results |-> 0, fetched |-> <<>>, after |-> NoFile, valid |-> FALSE]

\* Nothing is on disk, no request is running.
InitStore ==
    /\ dirs = {}
    /\ files = NoFiles
    /\ procs = [p \in Procs |-> Idle]
    /\ ret = NoRet
    /\ prev = NoPrev

\* The host framework serves one request at a time.
Init == InitStore /\ workers = 1 /\ asked = PlainTopics

\* Several server processes share PAPER_DIR.
InitConc == InitStore /\ workers = NumProcs /\ asked = SharedTopics

\* One request at a time, from callers whose topics are no directory name.
InitOdd == InitStore /\ workers = 1 /\ asked = OddTopics

Active == { p \in Procs : procs[p].pc # "idle" }

\* The topics the callers of this configuration ask about, and the largest
\* max_results they pass.
Asked == asked

AskedResults == IF workers = 1 THEN MaxResults ELSE MaxResults - 1

\* What the collaborator returns to them: concurrent callers get results
\* with ids of their own, "A" or the first "B".
Found == IF workers = 1 THEN Papers ELSE { q \in Papers : q.title \in {"tA", "tB"} }

\* os.makedirs(path, exist_ok=True)
MakeDirs(ds, path) == ds \cup Prefixes(path)

FilePath(p) == TopicPath(TopicSlug(procs[p].topic))

Raise(p, e) == [procs EXCEPT ![p].pc = "raised", ![p].exc = e]

(* ---------------------------------------------------------- search_papers *)

\* Lines 64-77: the base directory, the collaborator's client and search,
\* the slug and the topic directory.  The collaborator can fail before any
\* result is iterated; the topic directory does not exist then.
SearchStart(p, topic, max_results) ==
    /\ procs[p].pc = "idle"
    /\ \A q \in Procs : q < p => procs[q].pc # "idle"
    /\ Cardinality(Active) < workers
    /\ topic \in Asked
    /\ max_results <= AskedResults
    /\ LET me == [Idle EXCEPT !.topic = topic, !.max_results = max_results,
                              !.before = files]
       IN  \/ /\ dirs' = MakeDirs(MakeDirs(dirs, Root), TopicPath(TopicSlug(topic)))
              /\ procs' = [procs EXCEPT ![p] = [me EXCEPT !.pc = "load"]]
           \/ /\ dirs' = MakeDirs(dirs, Root)
              /\ procs' = [procs EXCEPT ![p] = [me EXCEPT !.pc = "raised",
                                                         !.exc = "collaborator"]]
    /\ ret' = NoRet
    /\ prev' = IF prev.valid /\ prev.topic = topic /\ prev.max_results = max_results
                  /\ Active = {}
               THEN prev ELSE NoPrev
    /\ UNCHANGED <<files, workers, asked>>

\* A load that gives None, not {}, for a file that does not parse.
LoadPapersInfoNoRecovery(text) ==
    IF text = NoFile THEN PyDict(EmptyMap)
    ELSE IF JsonLoad(text).ok THEN JsonLoad(text).value ELSE PyNone

\* Lines 79-83: the prior contents, or {} when the file is missing or does
\* not parse.
LoadPapersInfo(text) ==
    IF text = NoFile THEN PyDict(EmptyMap)
    ELSE IF JsonLoad(text).ok THEN JsonLoad(text).value ELSE PyDict(EmptyMap)

SearchLoad(p) ==
    /\ procs[p].pc = "load"
    /\ procs' = [procs EXCEPT ![p].pc = "iterate",
                              ![p].papers_info = LoadPapersInfo(files[FilePath(p)])]
    /\ ret' = NoRet
    /\ UNCHANGED <<dirs, files, prev, workers, asked>>

RECURSIVE MergeToggle(_, _, _)
\* A loop that deletes the entry of an id the partition already holds.
MergeToggle(m, fetched, i) ==
    IF i > Len(fetched) THEN m
    ELSE IF fetched[i].id \in DOMAIN m
         THEN MergeToggle([x \in DOMAIN m \ {fetched[i].id} |-> m[x]], fetched, i + 1)
         ELSE MergeToggle(SetItem(m, fetched[i].id, PaperInfoEntry(fetched[i])), fetched, i + 1)

RECURSIVE MergeFrom(_, _, _)
\* Lines 86-96 from result i on: each result's entry is stored under its id.
MergeFrom(m, fetched, i) ==
    IF i > Len(fetched) THEN m
    ELSE MergeFrom(SetItem(m, fetched[i].id, PaperInfoEntry(fetched[i])), fetched, i + 1)

\* processed_paper_ids
ProcessedIds(fetched) == [i \in 1..Len(fetched) |-> fetched[i].id]

\* Lines 85-96: the loop over the collaborator's results.  The collaborator
\* can fail while it is iterated; a loaded value that is no dict does not
\* take an item assignment (TypeError).
SearchIterate(p, fetched) ==
    /\ procs[p].pc = "iterate"
    /\ Len(fetched) <= procs[p].max_results
    /\ \A i \in 1..Len(fetched) : fetched[i] \in Found
    /\ \/ procs' = Raise(p, "collaborator")
       \/ procs' = IF procs[p].papers_info.t # "dict" /\ fetched # <<>>
                   THEN Raise(p, "TypeError")
                   ELSE [procs EXCEPT
                            ![p].pc = "open",
                            ![p].fetched = fetched,
                            ![p].result = ProcessedIds(fetched),
                            ![p].papers_info =
                                IF procs[p].papers_info.t = "dict"
                                THEN PyDict(MergeFrom(procs[p].papers_info.members, fetched, 1))
                                ELSE procs[p].papers_info]
    /\ ret' = NoRet
    /\ prev' = IF prev.valid /\ prev.fetched = fetched /\ procs'[p].pc = "open"
               THEN prev ELSE NoPrev
    /\ UNCHANGED <<dirs, files, workers, asked>>

\* Line 98: open(file_path, "w") leaves an empty file, or fails.
SearchOpen(p) ==
    /\ procs[p].pc = "open"
    /\ \/ /\ files' = [files EXCEPT ![FilePath(p)] = EmptyText]
          /\ procs' = [procs EXCEPT ![p].pc = "write"]
       \/ /\ procs' = Raise(p, "OSError")
          /\ UNCHANGED files
    /\ ret' = NoRet
    /\ UNCHANGED <<dirs, prev, workers, asked>>

\* Line 99, a full buffer: a prefix of the text reaches the file.
SearchFlush(p) ==
    /\ procs[p].pc = "write"
    /\ files' = [files EXCEPT ![FilePath(p)] = PartialText]
    /\ procs' = [procs EXCEPT ![p].pc = "flushed"]
    /\ ret' = NoRet
    /\ UNCHANGED <<dirs, prev, workers, asked>>

\* Line 99 and the end of the with block: the whole text reaches the file
\* and the call returns processed_paper_ids, or the write fails and what
\* was written stays.
SearchDump(p) ==
    /\ procs[p].pc \in {"write", "flushed"}
    /\ \/ /\ files' = [files EXCEPT ![FilePath(p)] = JsonDump(procs[p].papers_info)]
          /\ procs' = [procs EXCEPT ![p].pc = "done"]
       \/ /\ procs' = Raise(p, "OSError")
          /\ UNCHANGED files
    /\ ret' = NoRet
    /\ UNCHANGED <<dirs, prev, workers, asked>>

\* The response leaves the server: the list of ids, or the exception.
SearchReturn(p) ==
    /\ procs[p].pc \in {"done", "raised"}
    /\ procs' = [procs EXCEPT ![p] = Idle]
    /\ prev' = IF procs[p].pc = "done" /\ Cardinality(Active) = 1
               THEN [topic |-> procs[p].topic, max_results |-> procs[p].max_results,
                     fetched |-> procs[p].fetched, after |-> files[FilePath(p)],
                     valid |-> TRUE]
               ELSE NoPrev
    /\ ret' = NoRet
    /\ UNCHANGED <<dirs, files, workers, asked>>

Search ==
    \E p \in Procs :
        \/ \E topic \in Topics, max_results \in 1..MaxResults :
               SearchStart(p, topic, max_results)
        \/ SearchLoad(p)
        \/ \E fetched \in SeqsUpTo(Papers, MaxResults) : SearchIterate(p, fetched)
        \/ SearchOpen(p)
        \/ SearchFlush(p)
        \/ SearchDump(p)
        \/ SearchReturn(p)

(* ------------------------------------------------------ directory reads *)

\* os.listdir(d): the names in directory d.
ListDir(d) ==
    { q[Len(q)] : q \in { r \in dirs : Len(r) = Len(d) + 1 /\ SubSeq(r, 1, Len(d)) = d } }
        \cup (IF files[d] # NoFile THEN { InfoFile } ELSE {})

RECURSIVE Perms(_)
\* The orders in which os.listdir can give a set of names.
Perms(S) ==
    IF S = {} THEN { <<>> }
    ELSE UNION { { <<x>> \o rest : rest \in Perms(S \ {x}) } : x \in S }

\* os.path.isdir(os.path.join(PAPER_DIR, item))
IsDir(item) == <<item>> \in dirs

\* os.path.isfile / os.path.exists of the item's papers_info.json
HasInfoFile(item) == IsDir(item) /\ files[<<item>>] # NoFile

(* ------------------------------------------------------------ extract_info *)

NoDirMessage    == [kind |-> "no_dir", entry |-> EmptyMap]
NotFoundMessage == [kind |-> "not_found", entry |-> EmptyMap]
Raised(e)       == [kind |-> "raised", entry |-> EmptyMap, exc |-> e]

\* json.dumps(papers_info[paper_id], indent=2)
JsonDumps(entry) == [kind |-> "json", entry |-> entry]

RECURSIVE ScanStopAtMiss(_, _, _)
\* A scan that gives up at the first partition that lacks the id.
ScanStopAtMiss(order, i, paper_id) ==
    IF i > Len(order) THEN NotFoundMessage
    ELSE IF ~HasInfoFile(order[i]) THEN ScanStopAtMiss(order, i + 1, paper_id)
    ELSE LET loaded == JsonLoad(files[<<order[i]>>])
         IN  IF ~loaded.ok THEN ScanStopAtMiss(order, i + 1, paper_id)
             ELSE IF loaded.value.t # "dict" THEN Raised("TypeError")
             ELSE IF paper_id \in DOMAIN loaded.value.members
                  THEN JsonDumps(loaded.value.members[paper_id])
                  ELSE NotFoundMessage

RECURSIVE ScanAbortOnCorrupt(_, _, _)
\* A scan that a partition that does not parse ends.
ScanAbortOnCorrupt(order, i, paper_id) ==
    IF i > Len(order) THEN NotFoundMessage
    ELSE IF ~HasInfoFile(order[i]) THEN ScanAbortOnCorrupt(order, i + 1, paper_id)
    ELSE LET loaded == JsonLoad(files[<<order[i]>>])
         IN  IF ~loaded.ok THEN NotFoundMessage
             ELSE IF loaded.value.t # "dict" THEN Raised("TypeError")
             ELSE IF paper_id \in DOMAIN loaded.value.members
                  THEN JsonDumps(loaded.value.members[paper_id])
                  ELSE ScanAbortOnCorrupt(order, i + 1, paper_id)

RECURSIVE ScanFrom(_, _, _)
\* Lines 116-131 from item i of the listing on.
ScanFrom(order, i, paper_id) ==
    IF i > Len(order) THEN NotFoundMessage
    ELSE IF ~HasInfoFile(order[i]) THEN ScanFrom(order, i + 1, paper_id)
    ELSE LET loaded == JsonLoad(files[<<order[i]>>])
         IN  IF ~loaded.ok THEN ScanFrom(order, i + 1, paper_id)
             ELSE IF loaded.value.t # "dict" THEN Raised("TypeError")
             ELSE IF paper_id \in DOMAIN loaded.value.members
                  THEN JsonDumps(loaded.value.members[paper_id])
                  ELSE ScanFrom(order, i + 1, paper_id)

\* extract_info(paper_id), os.listdir giving the names in this order.
ExtractInfoResult(order, paper_id) ==
    IF Root \notin dirs THEN NoDirMessage ELSE ScanFrom(order, 1, paper_id)

\* The ids callers look up: the ids the collaborator knows and one it does not.
LookupIds == PaperIds \cup { "Z" }

\* A read-only request is served in one step, when the host has a free slot.
Serve(op, arg, result) ==
    /\ Cardinality(Active) < workers
    /\ ret' = [op |-> op, arg |-> arg, result |-> result]
    /\ prev' = NoPrev
    /\ UNCHANGED <<dirs, files, procs, workers, asked>>

ExtractInfo(paper_id) ==
    \E order \in Perms(IF Root \in dirs THEN ListDir(Root) ELSE {}) :
        Serve("extract_info", paper_id, ExtractInfoResult(order, paper_id))

(* --------------------------------------------------- get_available_folders *)

RECURSIVE LexLess(_, _)
\* Python's str order: s < t
LexLess(s, t) ==
    IF t = <<>> THEN FALSE
    ELSE IF s = <<>> THEN TRUE
    ELSE IF s[1] # t[1] THEN s[1] < t[1]
    ELSE LexLess(Tail(s), Tail(t))

RECURSIVE InsertSorted(_, _)
InsertSorted(sorted, x) ==
    IF sorted = <<>> THEN <<x>>
    ELSE IF LexLess(x, sorted[1]) THEN <<x>> \o sorted
    ELSE <<sorted[1]>> \o InsertSorted(Tail(sorted), x)

\* The folders in listing order, not sorted.
Unsorted(folders) == folders

RECURSIVE Sorted(_)
\* sorted(folders)
Sorted(folders) ==
    IF folders = <<>> THEN <<>>
    ELSE InsertSorted(Sorted(SubSeq(folders, 1, Len(folders) - 1)), folders[Len(folders)])

\* Lines 141-148: the topic directories that hold a papers_info.json, in
\* listing order.
Folders(order) == SelectSeq(order, HasInfoFile)

\* Lines 150-159: the Markdown text, as its heading, its bullet lines and
\* its closing hint.
AvailableFoldersResult(order) ==
    IF Folders(order) # <<>>
    THEN [heading |-> "# Available Topics (Folders with paper data)",
          lines   |-> Sorted(Folders(order)),
          hint    |-> "Use @papers://{topic_folder_name} to access papers in that topic."]
    ELSE [heading |-> "# Available Topics (Folders with paper data)",
          lines   |-> <<>>,
          hint    |-> "No topic folders with paper data found. You can try using the 'search_papers' tool to populate topics."]

GetAvailableFolders ==
    \E order \in Perms(IF Root \in dirs THEN ListDir(Root) ELSE {}) :
        Serve("get_available_folders", <<>>, AvailableFoldersResult(order))

(* -------------------------------------------------------- get_topic_papers *)

IsLetter(c) == (c >= 65 /\ c <= 90) \/ (c >= 97 /\ c <= 122)

UpperChar(c) == IF c >= 97 /\ c <= 122 THEN c - 32 ELSE c

\* topic.replace('_', ' ').replace('-', ' ').title()
TopicTitle(topic) ==
    LET spaced == [i \in 1..Len(topic) |->
                      IF topic[i] = 95 \/ topic[i] = 45 THEN 32 ELSE topic[i]]
    IN  [i \in 1..Len(spaced) |->
            IF ~IsLetter(spaced[i]) THEN spaced[i]
            ELSE IF i = 1 \/ ~IsLetter(spaced[i - 1]) THEN UpperChar(spaced[i])
            ELSE LowerChar(spaced[i])]

\* Lines 189-198: the block of one paper; the summary is cut at 500
\* characters and "..." is always appended.
PaperBlock(paper_id, paper_info) ==
    [title     |-> paper_info.title,
     paper_id  |-> paper_id,
     authors   |-> IF paper_info.authors # <<>> THEN paper_info.authors ELSE <<"N/A">>,
     published |-> paper_info.published,
     pdf_url   |-> paper_info.pdf_url,
     summary   |-> <<paper_info.summary, "...">>]

TopicPage(kind, topic, total, blocks) ==
    [kind |-> kind, topic |-> topic, total |-> total, blocks |-> blocks]

\* get_topic_papers(topic): topic is the folder name.
TopicPapersResult(topic) ==
    LET path == TopicPath(topic)
        text == IF path \in dirs THEN files[path] ELSE NoFile
        loaded == JsonLoad(text)
    IN  IF text = NoFile THEN TopicPage("no_papers", topic, 0, EmptyMap)
        ELSE IF ~loaded.ok THEN TopicPage("corrupted", topic, 0, EmptyMap)
        ELSE IF loaded.value.t # "dict" \/ DOMAIN loaded.value.members = {}
             THEN TopicPage("no_information", TopicTitle(topic), 0, EmptyMap)
        ELSE TopicPage("papers", TopicTitle(topic),
                       Cardinality(DOMAIN loaded.value.members),
                       [k \in DOMAIN loaded.value.members |->
                           PaperBlock(k, loaded.value.members[k])])

GetTopicPapers(topic) ==
    Serve("get_topic_papers", topic, TopicPapersResult(topic))

(* ---------------------------------------------- calculator and the clock *)

\* The expressions callers send, by what happens to them: "2 + 2" evaluates,
\* "2 + x" holds a character that is not allowed, "1 / 0" makes eval raise.
Expressions == { "2 + 2", "2 + x", "1 / 0" }

CalculatorResult(expression) ==
    CASE expression = "2 + x" -> [kind |-> "text", text |-> "Error: Invalid characters in expression."]
      [] expression = "1 / 0" -> [kind |-> "text", text |-> "Error evaluating expression: division by zero"]
      [] OTHER                -> [kind |-> "text", text |-> "4"]

Calculator(expression) == Serve("calculator", expression, CalculatorResult(expression))

\* The formats callers send: none, one strftime takes, one it rejects.
Formats == { "None", "%Y-%m-%d", "bad" }

CurrentDatetimeResult(format_str) ==
    CASE format_str = "None" -> [kind |-> "text", text |-> "isoformat"]
      [] format_str = "bad"  -> [kind |-> "text", text |-> "Error formatting date"]
      [] OTHER               -> [kind |-> "text", text |-> "formatted"]

GetCurrentDatetime(format_str) ==
    Serve("get_current_datetime", format_str, CurrentDatetimeResult(format_str))

(* ----------------------------------------------------- generator endpoints *)

\* generator_singleton after the import at the top of the module: None, or
\* an object with the attributes named in attrs; flag is _initialized.
ConfigAttrs == { "main_config", "model_config", "default_models", "hf_model_dir" }
StatusAttrs == { "caches", "hf_models", "_last_cleanup_time", "mcp_client_manager", "manager_fields" }

Generators ==
    { [none |-> TRUE, attrs |-> {}, flag |-> FALSE],
      [none |-> FALSE, attrs |-> {}, flag |-> FALSE],
      [none |-> FALSE, attrs |-> {"_initialized"} \cup ConfigAttrs \cup StatusAttrs, flag |-> FALSE],
      [none |-> FALSE, attrs |-> {"_initialized"} \cup ConfigAttrs \cup StatusAttrs, flag |-> TRUE],
      [none |-> FALSE, attrs |-> {"_initialized", "main_config", "mcp_client_manager"}, flag |-> TRUE],
      [none |-> FALSE, attrs |-> {"_initialized"}, flag |-> TRUE] }

\* Lines 43 and 76
Unavailable(g) == g.none \/ "_initialized" \notin g.attrs \/ ~g.flag

ErrorPayload(reason) == [kind |-> "error", error |-> reason]

\* get_generator_configuration()
GeneratorConfigurationResult(g) ==
    IF Unavailable(g) THEN ErrorPayload("not available or not initialized")
    ELSE IF ~(ConfigAttrs \subseteq g.attrs) THEN ErrorPayload("missing an expected attribute")
    ELSE [kind |-> "config", error |-> ""]

\* get_generator_status(): every attribute is guarded by hasattr but the
\* fields of mcp_client_manager.
GeneratorStatusResult(g) ==
    IF Unavailable(g) THEN ErrorPayload("not available or not initialized")
    ELSE IF "mcp_client_manager" \in g.attrs /\ "manager_fields" \notin g.attrs
         THEN ErrorPayload("missing an expected attribute for status")
    ELSE [kind |-> "status", error |-> ""]

GetGeneratorConfiguration(g) ==
    Serve("get_generator_configuration", g, GeneratorConfigurationResult(g))

GetGeneratorStatus(g) ==
    Serve("get_generator_status", g, GeneratorStatusResult(g))

Read ==
    \/ \E paper_id \in LookupIds : ExtractInfo(paper_id)
    \/ GetAvailableFolders
    \/ \E t \in Topics : GetTopicPapers(TopicSlug(t))
    \/ \E e \in Expressions : Calculator(e)
    \/ \E f \in Formats : GetCurrentDatetime(f)
    \/ \E g \in Generators : GetGeneratorConfiguration(g)
    \/ \E g \in Generators : GetGeneratorStatus(g)

Next == Search \/ Read

Spec == Init /\ [][Next]_vars

SpecConc == InitConc /\ [][Next]_vars

SpecOdd == InitOdd /\ [][Next]_vars

(* ---------------------------------------------------------------- claims *)

\* The calls that have returned their list of ids.
Returned == { p \in Procs : procs[p].pc = "done" }

\* The text the call in slot p found in its partition file when it began.
Before(p) == procs[p].before[FilePath(p)]

\* The text now in the partition file of the call in slot p.
Partition(p) == files[FilePath(p)]

FetchedIds(p) == { procs[p].fetched[i].id : i \in 1..Len(procs[p].fetched) }

\* The record of the last result of the call in slot p that has this id.
LastFetched(p, id) ==
    LET F == procs[p].fetched
        last == CHOOSE i \in 1..Len(F) :
                    F[i].id = id /\ \A j \in (i + 1)..Len(F) : F[j].id # id
    IN  PaperInfoEntry(F[last])

\* The names get_available_folders has to list for a store.
ListedIn(fs) == { d[1] : d \in { e \in AllDirs : Len(e) = 1 /\ fs[e] # NoFile } }

\* C1: when the partition file parsed to a mapping P and the collaborator
\* returned F, the partition after search_papers is P overridden by F: ids
\* of P not in F keep their record, ids of F hold the last fetched record,
\* and there is no other id.
C1_MergeCorrectness ==
    \A p \in Returned :
        Before(p).t = "object" =>
            /\ Partition(p).t = "object"
            /\ DOMAIN Partition(p).members = DOMAIN Before(p).members \cup FetchedIds(p)
            /\ \A id \in DOMAIN Before(p).members \ FetchedIds(p) :
                   Partition(p).members[id] = Before(p).members[id]
            /\ \A id \in FetchedIds(p) :
                   Partition(p).members[id] = LastFetched(p, id)

\* A call that kept one old record, added one and overwrote another with a
\* fresh one.
C1_Witness ==
    \E p \in Returned :
        /\ Before(p).t = "object"
        /\ \E id \in DOMAIN Before(p).members \ FetchedIds(p) : TRUE
        /\ \E id \in FetchedIds(p) \ DOMAIN Before(p).members : TRUE
        /\ \E id \in FetchedIds(p) \cap DOMAIN Before(p).members :
               Partition(p).members[id] # Before(p).members[id]

\* The ids of a text that parses to a mapping; none for any other text.
IdsOf(text) == IF text.t = "object" THEN DOMAIN text.members ELSE {}

\* C2: calls on one topic that ran at the same time and contributed
\* disjoint sets of ids leave a partition that holds every one of their ids
\* and every id it held before.
C2_ConcurrentUnion ==
    \A p \in Returned : \A q \in Returned \ {p} :
        (procs[p].topic = procs[q].topic /\ FetchedIds(p) \cap FetchedIds(q) = {}) =>
            /\ Partition(p).t = "object"
            /\ FetchedIds(p) \cup FetchedIds(q) \cup IdsOf(Before(p)) \cup IdsOf(Before(q))
                   \subseteq DOMAIN Partition(p).members

\* C3: a partition file is absent or holds a complete serialized mapping,
\* in every state and so for every reader.
C3_AtomicWrite ==
    \A d \in AllDirs : files[d].t \in {"absent", "object"}

\* C4: no operation lets an exception escape: every search_papers call ends
\* with its list of ids, every other operation with a text or a payload.
C4_NoExceptionEscapes ==
    /\ \A p \in Procs : procs[p].pc # "raised"
    /\ ret.result.kind # "raised"

\* C5: a second search_papers run with the same topic and max_results and
\* the same results leaves the partition as the first run left it.
C5_Idempotence ==
    \A p \in Returned : prev.valid => Partition(p) = prev.after

\* A second run of a call that fetched something into a partition that
\* held other records before the first run.
C5_Witness ==
    \E p \in Returned :
        /\ prev.valid
        /\ procs[p].fetched # <<>>
        /\ Partition(p).t = "object"
        /\ DOMAIN Partition(p).members # FetchedIds(p)

\* The topic directories under PAPER_DIR that hold a partition file.
TopicDirs == { name \in ListedIn(files) : <<name>> \in dirs }

\* The partitions that parse to a mapping with this id as a key.
Holders(paper_id) ==
    { name \in TopicDirs : paper_id \in IdsOf(files[<<name>>]) }

\* The partitions whose file does not parse.
CorruptDirs == { name \in TopicDirs : ~JsonLoad(files[<<name>>]).ok }

\* The two texts extract_info gives when it finds no record.
NotFoundSignals == { NoDirMessage, NotFoundMessage }

\* C6: extract_info returns the serialized record some partition stores
\* under paper_id when a partition holds the id, and a not-found message
\* when none does or PAPER_DIR is missing.
C6_CrossPartitionLookup ==
    ret.op = "extract_info" =>
        /\ Holders(ret.arg) # {} =>
               \E name \in Holders(ret.arg) :
                   ret.result = JsonDumps(files[<<name>>].members[ret.arg])
        /\ Holders(ret.arg) = {} => ret.result \in NotFoundSignals
        /\ Root \notin dirs => ret.result \in NotFoundSignals

\* A lookup that found its record while another partition, without the id,
\* was there to scan.
C6_Witness ==
    /\ ret.op = "extract_info"
    /\ ret.result.kind = "json"
    /\ \E name \in TopicDirs : files[<<name>>].t = "object" /\ name \notin Holders(ret.arg)

\* C7: with a partition file that does not parse, get_available_folders
\* lists every topic that has a partition file, the corrupt one too, and
\* extract_info finds every id a valid partition holds, in any scan order.
C7_CorruptFileResilience ==
    CorruptDirs # {} =>
        /\ ret.op = "get_available_folders" =>
               { ret.result.lines[i] : i \in 1..Len(ret.result.lines) } = TopicDirs
        /\ (ret.op = "extract_info" /\ Holders(ret.arg) # {}) => ret.result.kind = "json"

\* A lookup that found its record beside a partition that does not parse.
C7_Witness ==
    /\ CorruptDirs # {}
    /\ ret.op = "extract_info"
    /\ ret.result.kind = "json"

\* C8 as claimed: a call the collaborator gave no results returns an empty
\* sequence and leaves the partition as it was, absent, valid or corrupt,
\* and the listed topics as they were.
C8_ZeroResultsUnchanged ==
    \A p \in Returned :
        procs[p].fetched = <<>> =>
            /\ procs[p].result = <<>>
            /\ Partition(p) = Before(p)
            /\ ListedIn(files) = ListedIn(procs[p].before)

\* C8 as amended: such a call returns an empty sequence, leaves a partition
\* that parsed to a mapping as it was, turns an absent or corrupt one into
\* the empty mapping, and the topic's directory under PAPER_DIR is listed
\* afterwards beside the topics listed before.
C8_ZeroResultsAmended ==
    \A p \in Returned :
        procs[p].fetched = <<>> =>
            /\ procs[p].result = <<>>
            /\ Before(p).t = "object" => Partition(p) = Before(p)
            /\ Before(p).t # "object" => Partition(p) = ObjectText(EmptyMap)
            /\ ListedIn(files) =
                   ListedIn(procs[p].before)
                       \cup (IF Len(FilePath(p)) = 1 THEN { FilePath(p)[1] } ELSE {})

\* A call without results on a topic that had no partition file.
C8_Witness ==
    \E p \in Returned :
        /\ procs[p].fetched = <<>>
        /\ Before(p) = NoFile
        /\ Partition(p) = ObjectText(EmptyMap)

\* The mapping that holds exactly the records the call in slot p fetched.
FreshRecords(p) == [id \in FetchedIds(p) |-> LastFetched(p, id)]

\* C9: when the partition file is missing or does not parse, search_papers
\* goes on with an empty mapping, no exception comes from the load, and the
\* partition it leaves holds exactly the fetched records: the same for a
\* missing as for a corrupt file, as are the ids it returns.
C9_SilentRecovery ==
    \A p \in Procs :
        ~JsonLoad(Before(p)).ok =>
            /\ procs[p].pc = "iterate" => procs[p].papers_info = PyDict(EmptyMap)
            /\ procs[p].pc = "raised" => procs[p].exc \in {"collaborator", "OSError"}
            /\ procs[p].pc = "done" =>
                   /\ Partition(p) = ObjectText(FreshRecords(p))
                   /\ procs[p].result = ProcessedIds(procs[p].fetched)

\* A call that found a file that does not parse and stored what it fetched.
C9_Witness ==
    \E p \in Returned :
        /\ Before(p).t \in {"empty", "partial"}
        /\ procs[p].fetched # <<>>
        /\ Partition(p).t = "object"

\* C10: get_available_folders lists exactly the directories under PAPER_DIR
\* that hold a partition file, each once, in ascending order, and gives the
\* 'no topics' text that names search_papers exactly when there is none.
C10_TopicListing ==
    ret.op = "get_available_folders" =>
        LET lines == ret.result.lines
        IN  /\ { lines[i] : i \in 1..Len(lines) } = TopicDirs
            /\ \A i \in 1..(Len(lines) - 1) : LexLess(lines[i], lines[i + 1])
            /\ (ret.result.hint = AvailableFoldersResult(<<>>).hint) <=> (TopicDirs = {})

\* A listing of two topics.
C10_Witness ==
    /\ ret.op = "get_available_folders"
    /\ Len(ret.result.lines) = 2

\* The orders in which os.listdir can give the names in PAPER_DIR now.
Listings == Perms(IF Root \in dirs THEN ListDir(Root) ELSE {})

\* C11: once search_papers has returned its ids for any topic, the empty
\* one and one with a path separator too, and nothing else has written,
\* extract_info gives a stored record for each of the ids and
\* get_available_folders lists the topic's slug.
C11_ReadYourWrites ==
    \A p \in Returned : \A order \in Listings :
        /\ \A i \in 1..Len(procs[p].result) :
               ExtractInfoResult(order, procs[p].result[i]).kind = "json"
        /\ \E i \in 1..Len(AvailableFoldersResult(order).lines) :
               AvailableFoldersResult(order).lines[i] = TopicSlug(procs[p].topic)

====
